---- MODULE Spec2Model ----
(***************************************************************************)
(* Reboot-avoidance filter of the machine-config daemon                    *)
(* (package daemon, reboot_filter.go and its revisions).                   *)
(*                                                                         *)
(* Two specifications are given:                                           *)
(*   SpecDiff  the config differ: getFilesChanges / getUnitsChanges        *)
(*             applied to a pair of snapshots;                             *)
(*   Spec      one pass of the resolver and the executor:                  *)
(*             getPostUpdateActions, isDrainRequired and the loop of       *)
(*             runPostUpdateActions, applied to a policy table and a pair  *)
(*             of change lists.                                            *)
(*                                                                         *)
(* Strings that are matched by filepath.Match are sequences of one         *)
(* character strings, so that the matcher works on their characters.       *)
(***************************************************************************)
EXTENDS Integers, Sequences, FiniteSets, TLC

VARIABLES
  oldFilesConfig,   \* []igntypes.File, previous snapshot
  newFilesConfig,   \* []igntypes.File, current snapshot
  oldUnitsConfig,   \* []igntypes.Unit, previous snapshot
  newUnitsConfig,   \* []igntypes.Unit, current snapshot
  filesChanges,     \* []*FileChange
  unitsChanges,     \* []*UnitChange
  filterConfig,     \* AvoidRebootConfig: [Files, Units]
  actions,          \* []PostUpdateAction returned by getPostUpdateActions
  err,              \* error returned by getPostUpdateActions
  drain,            \* result of isDrainRequired
  idx,              \* position of the range loop of runPostUpdateActions
  ran,              \* the Run() calls made, in call order: [idx, action, err]
  ret,              \* return value of runPostUpdateActions
  pc                \* position of the pass

vars == <<oldFilesConfig, newFilesConfig, oldUnitsConfig, newUnitsConfig,
          filesChanges, unitsChanges, filterConfig, actions, err, drain,
          idx, ran, ret, pc>>

(***************************************************************************)
(* Bounds of the model.                                                    *)
(***************************************************************************)
MaxFiles == 2
MaxUnits == 2
MaxRules == 2
MaxChanges == 2

(***************************************************************************)
(* Generic helpers.                                                        *)
(***************************************************************************)
\* The elements of a slice, as mapset.NewSetFromSlice collects them.
NewSetFromSlice(s) == {s[k] : k \in 1..Len(s)}

\* Every order in which the channel of Set.Iter() can deliver the elements of
\* S: the set is backed by a Go map, whose iteration order is unspecified.
Iter(S) ==
  {s \in [1..Cardinality(S) -> S] : \A a, b \in 1..Cardinality(S) : a # b => s[a] # s[b]}

\* Sequences over S of length at most n.
SeqUpTo(S, n) == UNION {[1..k -> S] : k \in 0..n}

(***************************************************************************)
(* Change types.                                                           *)
(***************************************************************************)
changeCreated == "created"
changeDeleted == "deleted"
changeUpdated == "updated"

ChangeType == {changeCreated, changeDeleted, changeUpdated}

(***************************************************************************)
(* Snapshots: files and units.                                             *)
(***************************************************************************)
PathA == <<"/", "a">>
PathB == <<"/", "b">>
PathC == <<"/", "c">>

FilePaths == {PathA, PathB, PathC}
FileContents == {"v1", "v2"}

\* igntypes.File, reduced to its path and its contents.
File == [Path : FilePaths, Contents : FileContents]

UnitNames == {"u1.service", "u2.service", "u3.service"}

\* The sub-structure of igntypes.Unit that takes part in reflect.DeepEqual:
\* a base body and one body differing from it in each field.
UnitBodies ==
  { [Enabled |-> TRUE,  Contents |-> "c1", Dropins |-> << >>],
    [Enabled |-> FALSE, Contents |-> "c1", Dropins |-> << >>],
    [Enabled |-> TRUE,  Contents |-> "c2", Dropins |-> << >>],
    [Enabled |-> TRUE,  Contents |-> "c1", Dropins |-> <<"d.conf">>] }

Unit ==
  { [Name |-> n, Enabled |-> b.Enabled, Contents |-> b.Contents, Dropins |-> b.Dropins] :
      n \in UnitNames, b \in UnitBodies }

\* A nil *igntypes.Unit.
NilUnit == [Nil |-> TRUE]

\* Snapshots hold one descriptor per identity.
FileSnapshots ==
  {s \in SeqUpTo(File, MaxFiles) : \A a, b \in 1..Len(s) : a # b => s[a].Path # s[b].Path}

UnitSnapshots ==
  {s \in SeqUpTo(Unit, MaxUnits) : \A a, b \in 1..Len(s) : a # b => s[a].Name # s[b].Name}

(***************************************************************************)
(* The differ.                                                             *)
(***************************************************************************)
getFileNames(files) == [k \in 1..Len(files) |-> files[k].Path]

\* fileMap[file.Path] = file for each file in order: the last one stays.
filesToMap(files) ==
  [p \in NewSetFromSlice(getFileNames(files)) |->
     files[CHOOSE k \in 1..Len(files) :
             /\ files[k].Path = p
             /\ \A m \in (k+1)..Len(files) : files[m].Path # p]]

getUnitNames(units) == [k \in 1..Len(units) |-> units[k].Name]

\* unitMap[unit.Name] = &unit stores the address of the one range variable
\* `unit` under every key (the package predates per-iteration loop variables);
\* after the loop that variable holds the last unit of the slice, so every
\* entry of the map points to the last unit.
unitsToMap(units) ==
  [n \in NewSetFromSlice(getUnitNames(units)) |-> units[Len(units)]]

\* Variant of FilesChangesFor: the candidates are not compared, every path
\* present in both snapshots is reported as updated.
FilesChangesForNoCompare(oldFilesMap, newFilesMap, created, deleted, candidates) ==
  LET c == [k \in 1..Len(created) |->
              [name |-> created[k], file |-> newFilesMap[created[k]],
               changeType |-> changeCreated]]
      d == [k \in 1..Len(deleted) |->
              [name |-> deleted[k], file |-> oldFilesMap[deleted[k]],
               changeType |-> changeDeleted]]
      u == [k \in 1..Len(candidates) |->
              [name |-> candidates[k], file |-> newFilesMap[candidates[k]],
               changeType |-> changeUpdated]]
  IN  c \o d \o u

\* Variant of FilesChangesFor: the loop over the removed paths is missing.
FilesChangesForWithoutDeleted(oldFilesMap, newFilesMap, created, deleted, candidates) ==
  LET c == [k \in 1..Len(created) |->
              [name |-> created[k], file |-> newFilesMap[created[k]],
               changeType |-> changeCreated]]
      u == [k \in 1..Len(candidates) |->
              [name |-> candidates[k], file |-> newFilesMap[candidates[k]],
               changeType |-> changeUpdated]]
      differs(ch) == newFilesMap[ch.name] # oldFilesMap[ch.name]
  IN  c \o SelectSeq(u, differs)

\* The three loops of getFilesChanges for one delivery order of each set.
FilesChangesFor(oldFilesMap, newFilesMap, created, deleted, candidates) ==
  LET c == [k \in 1..Len(created) |->
              [name |-> created[k], file |-> newFilesMap[created[k]],
               changeType |-> changeCreated]]
      d == [k \in 1..Len(deleted) |->
              [name |-> deleted[k], file |-> oldFilesMap[deleted[k]],
               changeType |-> changeDeleted]]
      u == [k \in 1..Len(candidates) |->
              [name |-> candidates[k], file |-> newFilesMap[candidates[k]],
               changeType |-> changeUpdated]]
      differs(ch) == newFilesMap[ch.name] # oldFilesMap[ch.name]
  IN  c \o d \o SelectSeq(u, differs)

\* The change lists getFilesChanges can return for a pair of snapshots.
getFilesChanges(oldFiles_, newFiles_) ==
  LET oldFiles == NewSetFromSlice(getFileNames(oldFiles_))
      oldFilesMap == filesToMap(oldFiles_)
      newFiles == NewSetFromSlice(getFileNames(newFiles_))
      newFilesMap == filesToMap(newFiles_)
  IN  { FilesChangesFor(oldFilesMap, newFilesMap, created, deleted, candidates) :
          created \in Iter(newFiles \ oldFiles),
          deleted \in Iter(oldFiles \ newFiles),
          candidates \in Iter(newFiles \cap oldFiles) }

\* Variant of UnitsChangesFor: the candidates are not compared, every unit
\* present in both snapshots is reported as updated.
UnitsChangesForNoCompare(oldUnitsMap, newUnitsMap, created, deleted, candidates) ==
  LET c == [k \in 1..Len(created) |->
              [name |-> created[k], newUnit |-> newUnitsMap[created[k]],
               oldUnit |-> NilUnit, changeType |-> changeCreated]]
      d == [k \in 1..Len(deleted) |->
              [name |-> deleted[k], newUnit |-> NilUnit,
               oldUnit |-> oldUnitsMap[deleted[k]], changeType |-> changeDeleted]]
      u == [k \in 1..Len(candidates) |->
              [name |-> candidates[k], newUnit |-> newUnitsMap[candidates[k]],
               oldUnit |-> oldUnitsMap[candidates[k]], changeType |-> changeUpdated]]
  IN  c \o d \o u

\* The three loops of getUnitsChanges for one delivery order of each set.
UnitsChangesFor(oldUnitsMap, newUnitsMap, created, deleted, candidates) ==
  LET c == [k \in 1..Len(created) |->
              [name |-> created[k], newUnit |-> newUnitsMap[created[k]],
               oldUnit |-> NilUnit, changeType |-> changeCreated]]
      d == [k \in 1..Len(deleted) |->
              [name |-> deleted[k], newUnit |-> NilUnit,
               oldUnit |-> oldUnitsMap[deleted[k]], changeType |-> changeDeleted]]
      u == [k \in 1..Len(candidates) |->
              [name |-> candidates[k], newUnit |-> newUnitsMap[candidates[k]],
               oldUnit |-> oldUnitsMap[candidates[k]], changeType |-> changeUpdated]]
      differs(ch) == ch.newUnit # ch.oldUnit
  IN  c \o d \o SelectSeq(u, differs)

\* The change lists getUnitsChanges can return for a pair of snapshots.
getUnitsChanges(oldUnits_, newUnits_) ==
  LET oldUnits == NewSetFromSlice(getUnitNames(oldUnits_))
      oldUnitsMap == unitsToMap(oldUnits_)
      newUnits == NewSetFromSlice(getUnitNames(newUnits_))
      newUnitsMap == unitsToMap(newUnits_)
  IN  { UnitsChangesFor(oldUnitsMap, newUnitsMap, created, deleted, candidates) :
          created \in Iter(newUnits \ oldUnits),
          deleted \in Iter(oldUnits \ newUnits),
          candidates \in Iter(newUnits \cap oldUnits) }

(***************************************************************************)
(* filepath.Match on character sequences: literals, '?', '*' and character *)
(* classes of plain characters. '*' and '?' never match the separator.     *)
(***************************************************************************)
Separator == "/"

\* Index of the ']' closing the class opened at p[k], 0 when there is none.
ClassEnd(p, k) ==
  IF \E m \in (k+1)..Len(p) : p[m] = "]"
  THEN CHOOSE m \in (k+1)..Len(p) : p[m] = "]" /\ \A n \in (k+1)..(m-1) : p[n] # "]"
  ELSE 0

\* The pattern is syntactically valid from index k on: every '[' opens a
\* class that holds at least one character and is closed by ']'.
RECURSIVE WellFormed(_, _)
WellFormed(p, k) ==
  IF k > Len(p) THEN TRUE
  ELSE IF p[k] = "["
       THEN ClassEnd(p, k) > k + 1 /\ WellFormed(p, ClassEnd(p, k) + 1)
       ELSE WellFormed(p, k + 1)

\* p from index k on matches all of s from index j on.
RECURSIVE MatchAt(_, _, _, _)
MatchAt(p, k, s, j) ==
  IF k > Len(p) THEN j > Len(s)
  ELSE IF p[k] = "*"
       THEN \E e \in j..(Len(s) + 1) :
              /\ \A m \in j..(e - 1) : s[m] # Separator
              /\ MatchAt(p, k + 1, s, e)
  ELSE IF j > Len(s) THEN FALSE
  ELSE IF p[k] = "?"
       THEN s[j] # Separator /\ MatchAt(p, k + 1, s, j + 1)
  ELSE IF p[k] = "["
       THEN /\ \E m \in (k+1)..(ClassEnd(p, k) - 1) : p[m] = s[j]
            /\ MatchAt(p, ClassEnd(p, k) + 1, s, j + 1)
  ELSE p[k] = s[j] /\ MatchAt(p, k + 1, s, j + 1)

\* matched, err := filepath.Match(pattern, name). A malformed pattern is
\* reported as ErrBadPattern and never as a match.
Match(pattern, name) ==
  IF WellFormed(pattern, 1)
  THEN [matched |-> MatchAt(pattern, 1, name, 1), err |-> "nil"]
  ELSE [matched |-> FALSE, err |-> "ErrBadPattern"]

(***************************************************************************)
(* Post update actions.                                                    *)
(***************************************************************************)
unitRestart == "restart"
unitReload == "reload"

\* The nil PostUpdateAction.
Nil == [kind |-> "nil"]

RunBinaryAction(binary, drainRequired) ==
  [kind |-> "RunBinaryAction", binary |-> binary, drainRequired |-> drainRequired]

RunSystemctlAction(unitName, operation, drainRequired) ==
  [kind |-> "RunSystemctlAction", unitName |-> unitName, operation |-> operation,
   drainRequired |-> drainRequired]

getIsDrainRequired(action) == action.drainRequired

\* The errors Run() can return: exec.Command can fail, the systemctl action
\* is a stub that returns nil.
Run(action) ==
  IF action.kind = "RunBinaryAction" THEN {"nil", "exit status 1"} ELSE {"nil"}

(***************************************************************************)
(* The policy table.                                                       *)
(***************************************************************************)
\* for _, entry := range config.Files, from entry k on.
RECURSIVE FileActionFrom(_, _, _)
FileActionFrom(config, filePath, k) ==
  IF k > Len(config.Files) THEN Nil
  ELSE LET entry == config.Files[k]
           m == Match(entry.glob, filePath)
       IN  IF m.err # "nil" THEN FileActionFrom(config, filePath, k + 1)
           ELSE IF m.matched THEN entry.postUpdateAction
           ELSE FileActionFrom(config, filePath, k + 1)

\* Variant of getFileAction: the loop does not return at the first match, so
\* the last matching entry decides.
getFileActionLastMatch(config, filePath) ==
  LET hits == {k \in 1..Len(config.Files) : Match(config.Files[k].glob, filePath).matched}
  IN  IF hits = {} THEN Nil
      ELSE config.Files[CHOOSE k \in hits : \A m \in hits : m <= k].postUpdateAction

\* Variant of getFileAction: the lookup gives up at the first entry whose
\* glob is malformed.
RECURSIVE FileActionAbortFrom(_, _, _)
FileActionAbortFrom(config, filePath, k) ==
  IF k > Len(config.Files) THEN Nil
  ELSE LET entry == config.Files[k]
           m == Match(entry.glob, filePath)
       IN  IF m.err # "nil" THEN Nil
           ELSE IF m.matched THEN entry.postUpdateAction
           ELSE FileActionAbortFrom(config, filePath, k + 1)

getFileActionAbortOnBadPattern(config, filePath) == FileActionAbortFrom(config, filePath, 1)

\* Variant of getFileAction: a matching entry without an action is passed
\* over and the next matching entry decides.
RECURSIVE FileActionSkipNilFrom(_, _, _)
FileActionSkipNilFrom(config, filePath, k) ==
  IF k > Len(config.Files) THEN Nil
  ELSE LET entry == config.Files[k]
           m == Match(entry.glob, filePath)
       IN  IF m.err = "nil" /\ m.matched /\ entry.postUpdateAction # Nil
           THEN entry.postUpdateAction
           ELSE FileActionSkipNilFrom(config, filePath, k + 1)

getFileActionSkipNil(config, filePath) == FileActionSkipNilFrom(config, filePath, 1)

getFileAction(config, filePath) == FileActionFrom(config, filePath, 1)

\* for _, entry := range config.Units, from entry k on.
RECURSIVE UnitActionFrom(_, _, _)
UnitActionFrom(config, unitName, k) ==
  IF k > Len(config.Units) THEN Nil
  ELSE LET entry == config.Units[k]
       IN  IF entry.name = unitName
           THEN RunSystemctlAction(unitName, unitRestart, entry.drainRequired)
           ELSE UnitActionFrom(config, unitName, k + 1)

\* The characters of the unit names and entry names of this model.
UnitNameChars(n) ==
  CASE n = "u1.service" -> <<"u", "1", ".", "s", "e", "r", "v", "i", "c", "e">>
    [] n = "u2.service" -> <<"u", "2", ".", "s", "e", "r", "v", "i", "c", "e">>
    [] n = "u3.service" -> <<"u", "3", ".", "s", "e", "r", "v", "i", "c", "e">>
    [] n = "*.service" -> <<"*", ".", "s", "e", "r", "v", "i", "c", "e">>

\* An entry name taken as a glob matches the unit name.
UnitGlobMatch(entryName, unitName) ==
  \/ entryName = unitName
  \/ Match(UnitNameChars(entryName), UnitNameChars(unitName)).matched

\* Variant of getUnitAction: an entry matches by equality or as a glob.
getUnitActionGlob(config, unitName) ==
  LET hits == {k \in 1..Len(config.Units) : UnitGlobMatch(config.Units[k].name, unitName)}
  IN  IF hits = {} THEN Nil
      ELSE RunSystemctlAction(unitName, unitRestart,
             config.Units[CHOOSE k \in hits : \A m \in hits : k <= m].drainRequired)

\* Variant of getUnitAction: the last entry that names the unit gives the
\* drain flag.
getUnitActionLastEntry(config, unitName) ==
  LET hits == {k \in 1..Len(config.Units) : config.Units[k].name = unitName}
  IN  IF hits = {} THEN Nil
      ELSE RunSystemctlAction(unitName, unitRestart,
             config.Units[CHOOSE k \in hits : \A m \in hits : m <= k].drainRequired)

getUnitAction(config, unitName) == UnitActionFrom(config, unitName, 1)

(***************************************************************************)
(* The resolver, the drain aggregator and the executor.                    *)
(***************************************************************************)
\* The second loop of getPostUpdateActions, from unit change k on.
RECURSIVE ResolveUnits(_, _, _)
ResolveUnits(unitsChanges_, k, acc) ==
  IF k > Len(unitsChanges_) THEN [actions |-> acc, err |-> "nil"]
  ELSE LET change == unitsChanges_[k]
           action == getUnitAction(filterConfig, change.name)
       IN  IF change.changeType \in {changeCreated, changeUpdated}
           THEN IF action = Nil
                THEN [actions |-> << >>, err |-> "No action found for unit"]
                ELSE ResolveUnits(unitsChanges_, k + 1, Append(acc, action))
           ELSE [actions |-> << >>, err |-> "Unit was removed"]

\* The first loop of getPostUpdateActions, from file change k on.
RECURSIVE ResolveFiles(_, _, _, _)
ResolveFiles(filesChanges_, unitsChanges_, k, acc) ==
  IF k > Len(filesChanges_) THEN ResolveUnits(unitsChanges_, 1, acc)
  ELSE LET change == filesChanges_[k]
           action == getFileAction(filterConfig, change.name)
       IN  IF change.changeType \in {changeCreated, changeUpdated}
           THEN IF action = Nil
                THEN [actions |-> << >>, err |-> "No action found for file"]
                ELSE ResolveFiles(filesChanges_, unitsChanges_, k + 1, Append(acc, action))
           ELSE [actions |-> << >>, err |-> "File was removed"]

\* Variant of getPostUpdateActions: removed files and units are passed over
\* instead of ending the resolution.
getPostUpdateActionsIgnoringDeleted(filesChanges_, unitsChanges_) ==
  LET kept(change) == change.changeType # changeDeleted
  IN  ResolveFiles(SelectSeq(filesChanges_, kept), SelectSeq(unitsChanges_, kept), 1, << >>)

\* Variant of getPostUpdateActions: a created or updated change without an
\* action is passed over instead of ending the resolution.
getPostUpdateActionsSkippingUnmatched(filesChanges_, unitsChanges_) ==
  LET keptFile(change) ==
        \/ change.changeType = changeDeleted
        \/ getFileAction(filterConfig, change.name) # Nil
      keptUnit(change) ==
        \/ change.changeType = changeDeleted
        \/ getUnitAction(filterConfig, change.name) # Nil
  IN  ResolveFiles(SelectSeq(filesChanges_, keptFile), SelectSeq(unitsChanges_, keptUnit),
                   1, << >>)

\* Variant of getPostUpdateActions: the loop over the units runs before the
\* loop over the files.
getPostUpdateActionsUnitsFirst(filesChanges_, unitsChanges_) ==
  LET r == ResolveFiles(filesChanges_, unitsChanges_, 1, << >>)
      n == Len(filesChanges_)
  IN  IF r.err # "nil" THEN r
      ELSE [actions |-> SubSeq(r.actions, n + 1, Len(r.actions)) \o SubSeq(r.actions, 1, n),
            err |-> "nil"]

\* Variant of getPostUpdateActions: the first change that does not resolve
\* ends the loops with `break`, and the actions found so far are returned
\* without an error.
getPostUpdateActionsPartial(filesChanges_, unitsChanges_) ==
  LET okFile(change) ==
        /\ change.changeType # changeDeleted
        /\ getFileAction(filterConfig, change.name) # Nil
      okUnit(change) ==
        /\ change.changeType # changeDeleted
        /\ getUnitAction(filterConfig, change.name) # Nil
      badFiles == {k \in 1..Len(filesChanges_) : ~okFile(filesChanges_[k])}
      badUnits == {k \in 1..Len(unitsChanges_) : ~okUnit(unitsChanges_[k])}
      firstOf(S, n) == IF S = {} THEN n + 1 ELSE CHOOSE k \in S : \A m \in S : k <= m
      f == SubSeq(filesChanges_, 1, firstOf(badFiles, Len(filesChanges_)) - 1)
      u == IF badFiles # {} THEN << >>
           ELSE SubSeq(unitsChanges_, 1, firstOf(badUnits, Len(unitsChanges_)) - 1)
  IN  ResolveFiles(f, u, 1, << >>)

getPostUpdateActions(filesChanges_, unitsChanges_) ==
  ResolveFiles(filesChanges_, unitsChanges_, 1, << >>)

\* isRequired = isRequired || action.getIsDrainRequired(), from action k on.
RECURSIVE DrainFrom(_, _, _)
DrainFrom(actions_, k, isRequired) ==
  IF k > Len(actions_) THEN isRequired
  ELSE DrainFrom(actions_, k + 1, isRequired \/ getIsDrainRequired(actions_[k]))

\* Variant of isDrainRequired: the loop assigns the flag of each action
\* without `isRequired ||`, so the last action decides.
isDrainRequiredLast(actions_) ==
  IF actions_ = << >> THEN FALSE ELSE getIsDrainRequired(actions_[Len(actions_)])

isDrainRequired(actions_) == DrainFrom(actions_, 1, FALSE)

(***************************************************************************)
(* SpecDiff: the differ applied to a pair of snapshots.                    *)
(***************************************************************************)
NoConfig == [Files |-> << >>, Units |-> << >>]

PassIdle ==
  /\ filterConfig = NoConfig
  /\ actions = << >>
  /\ err = "nil"
  /\ drain = FALSE
  /\ idx = 0
  /\ ran = << >>
  /\ ret = FALSE

InitDiff ==
  /\ \/ /\ oldFilesConfig \in FileSnapshots
        /\ newFilesConfig \in FileSnapshots
        /\ oldUnitsConfig = << >>
        /\ newUnitsConfig = << >>
     \/ /\ oldFilesConfig = << >>
        /\ newFilesConfig = << >>
        /\ oldUnitsConfig \in UnitSnapshots
        /\ newUnitsConfig \in UnitSnapshots
  /\ filesChanges = << >>
  /\ unitsChanges = << >>
  /\ PassIdle
  /\ pc = "diffFiles"

GetFilesChanges ==
  /\ pc = "diffFiles"
  /\ filesChanges' \in getFilesChanges(oldFilesConfig, newFilesConfig)
  /\ pc' = "diffUnits"
  /\ UNCHANGED <<oldFilesConfig, newFilesConfig, oldUnitsConfig, newUnitsConfig,
                 unitsChanges, filterConfig, actions, err, drain, idx, ran, ret>>

GetUnitsChanges ==
  /\ pc = "diffUnits"
  /\ unitsChanges' \in getUnitsChanges(oldUnitsConfig, newUnitsConfig)
  /\ pc' = "diffDone"
  /\ UNCHANGED <<oldFilesConfig, newFilesConfig, oldUnitsConfig, newUnitsConfig,
                 filesChanges, filterConfig, actions, err, drain, idx, ran, ret>>

NextDiff == GetFilesChanges \/ GetUnitsChanges

SpecDiff == InitDiff /\ [][NextDiff]_vars

(***************************************************************************)
(* Spec: one pass of the resolver and the executor.                        *)
(***************************************************************************)
GlobA == <<"/", "a">>
GlobStar == <<"/", "*">>
GlobBad == <<"/", "[">>

Globs == {GlobA, GlobStar, GlobBad}

FileActions ==
  { RunBinaryAction("/bin/bash", FALSE),
    RunSystemctlAction("kubelet.service", unitReload, TRUE),
    Nil }

\* The file entries. The action of an entry with a malformed glob is never
\* read, so one such entry stands for all of them.
FileFilterEntry ==
  [glob : Globs \ {GlobBad}, postUpdateAction : FileActions]
    \cup {[glob |-> GlobBad, postUpdateAction |-> RunBinaryAction("/bin/bash", FALSE)]}

\* The unit entries: u2.service is a unit no entry names, and one entry
\* carries a name with a wildcard.
UnitFilterEntry ==
  [name : {"u1.service"}, drainRequired : BOOLEAN]
    \cup {[name |-> "*.service", drainRequired |-> FALSE]}

\* The policy tables: at most MaxRules entries, file and unit entries together.
AvoidRebootConfig ==
  UNION { UNION { [Files : [1..f -> FileFilterEntry], Units : [1..u -> UnitFilterEntry]] :
                    u \in 0..(MaxRules - f) } :
            f \in 0..MaxRules }

FileChange ==
  { [name |-> p, file |-> [Path |-> p, Contents |-> "v1"], changeType |-> t] :
      p \in {PathA, PathB}, t \in ChangeType }

BaseUnit(n) == [Name |-> n, Enabled |-> TRUE, Contents |-> "c1", Dropins |-> << >>]

UnitChange ==
  { [name |-> n,
     oldUnit |-> IF t = changeCreated THEN NilUnit ELSE BaseUnit(n),
     newUnit |-> IF t = changeDeleted THEN NilUnit ELSE BaseUnit(n),
     changeType |-> t] :
      n \in {"u1.service", "u2.service"}, t \in ChangeType }

\* The change lists of at most n changes: the differ emits at most one change
\* per identity.
ChangeLists(changes, n) ==
  {s \in SeqUpTo(changes, n) : \A a, b \in 1..Len(s) : a # b => s[a].name # s[b].name}

Init ==
  /\ oldFilesConfig = << >>
  /\ newFilesConfig = << >>
  /\ oldUnitsConfig = << >>
  /\ newUnitsConfig = << >>
  /\ filterConfig \in AvoidRebootConfig
  /\ filesChanges \in ChangeLists(FileChange, MaxChanges)
  /\ unitsChanges \in ChangeLists(UnitChange, MaxChanges - Len(filesChanges))
  /\ actions = << >>
  /\ err = "nil"
  /\ drain = FALSE
  /\ idx = 0
  /\ ran = << >>
  /\ ret = FALSE
  /\ pc = "resolve"

\* Where the pass goes once the changes are resolved: it ends in a reboot
\* when a change did not resolve (the `return true` of the resolution loops of
\* the one-function revision of runPostUpdateActions), else it goes on to the
\* drain check and the execution.
AfterResolve(e) == IF e = "nil" THEN "drain" ELSE "reboot"

\* actions, err := getPostUpdateActions(filesChanges, unitsChanges)
GetPostUpdateActions ==
  /\ pc = "resolve"
  /\ LET r == getPostUpdateActions(filesChanges, unitsChanges)
     IN  /\ actions' = r.actions
         /\ err' = r.err
         /\ pc' = AfterResolve(r.err)
  /\ UNCHANGED <<oldFilesConfig, newFilesConfig, oldUnitsConfig, newUnitsConfig,
                 filesChanges, unitsChanges, filterConfig, drain, idx, ran, ret>>

\* isDrainRequired(actions), read before the actions are run.
IsDrainRequired ==
  /\ pc = "drain"
  /\ drain' = isDrainRequired(actions)
  /\ idx' = 1
  /\ pc' = "run"
  /\ UNCHANGED <<oldFilesConfig, newFilesConfig, oldUnitsConfig, newUnitsConfig,
                 filesChanges, unitsChanges, filterConfig, actions, err, ran, ret>>

\* Variant of RunAction: a failed Run() is noted and the loop goes on to the
\* next action.
RunActionNoStop ==
  /\ pc = "run"
  /\ idx <= Len(actions)
  /\ \E e \in Run(actions[idx]) :
       /\ ran' = Append(ran, [idx |-> idx, action |-> actions[idx], err |-> e])
       /\ ret' = (ret \/ e # "nil")
       /\ idx' = idx + 1
       /\ pc' = pc
  /\ UNCHANGED <<oldFilesConfig, newFilesConfig, oldUnitsConfig, newUnitsConfig,
                 filesChanges, unitsChanges, filterConfig, actions, err, drain>>

\* Variant of RunAction: an action whose Run() failed is run a second time
\* before the function gives up.
RunActionRetryOnce ==
  /\ pc = "run"
  /\ idx <= Len(actions)
  /\ \E e \in Run(actions[idx]) :
       /\ ran' = Append(ran, [idx |-> idx, action |-> actions[idx], err |-> e])
       /\ IF e # "nil"
          THEN IF \E k \in 1..Len(ran) : ran[k].idx = idx
               THEN ret' = TRUE /\ pc' = "done" /\ idx' = idx
               ELSE ret' = ret /\ pc' = pc /\ idx' = idx
          ELSE ret' = ret /\ pc' = pc /\ idx' = idx + 1
  /\ UNCHANGED <<oldFilesConfig, newFilesConfig, oldUnitsConfig, newUnitsConfig,
                 filesChanges, unitsChanges, filterConfig, actions, err, drain>>

\* One iteration of the loop of runPostUpdateActions: action.Run(), and
\* return true when it fails.
RunAction ==
  /\ pc = "run"
  /\ idx <= Len(actions)
  /\ \E e \in Run(actions[idx]) :
       /\ ran' = Append(ran, [idx |-> idx, action |-> actions[idx], err |-> e])
       /\ IF e # "nil"
          THEN ret' = TRUE /\ pc' = "done" /\ idx' = idx
          ELSE ret' = ret /\ pc' = pc /\ idx' = idx + 1
  /\ UNCHANGED <<oldFilesConfig, newFilesConfig, oldUnitsConfig, newUnitsConfig,
                 filesChanges, unitsChanges, filterConfig, actions, err, drain>>

\* The loop of runPostUpdateActions is over: return false.
RunReturn ==
  /\ pc = "run"
  /\ idx > Len(actions)
  /\ ret' = FALSE
  /\ pc' = "done"
  /\ UNCHANGED <<oldFilesConfig, newFilesConfig, oldUnitsConfig, newUnitsConfig,
                 filesChanges, unitsChanges, filterConfig, actions, err, drain,
                 idx, ran>>

Next == GetPostUpdateActions \/ IsDrainRequired \/ RunAction \/ RunReturn

Spec == Init /\ [][Next]_vars

(***************************************************************************)
(* Properties of the resolver and the executor (specification Spec).       *)
(***************************************************************************)
\* getPostUpdateActions has returned.
Resolved == pc \in {"reboot", "drain", "run", "done"}

\* The entries of Files whose glob matches the path.
FileMatches(path) ==
  {k \in 1..Len(filterConfig.Files) : Match(filterConfig.Files[k].glob, path).matched}

\* The entries of Units that carry the unit name.
UnitMatches(name) ==
  {k \in 1..Len(filterConfig.Units) : filterConfig.Units[k].name = name}

Lowest(S) == CHOOSE k \in S : \A m \in S : k <= m

HasDeleted ==
  \/ \E k \in 1..Len(filesChanges) : filesChanges[k].changeType = changeDeleted
  \/ \E k \in 1..Len(unitsChanges) : unitsChanges[k].changeType = changeDeleted

HasUnmatched ==
  \/ \E k \in 1..Len(filesChanges) :
       /\ filesChanges[k].changeType \in {changeCreated, changeUpdated}
       /\ FileMatches(filesChanges[k].name) = {}
  \/ \E k \in 1..Len(unitsChanges) :
       /\ unitsChanges[k].changeType \in {changeCreated, changeUpdated}
       /\ UnitMatches(unitsChanges[k].name) = {}

\* C1: when filesChanges or unitsChanges holds a deleted change,
\* getPostUpdateActions returns an error and no action list, and the pass
\* ends in a reboot, whatever the policy table and the other changes are.
C1_DeletionForcesReboot ==
  (Resolved /\ HasDeleted) => (err # "nil" /\ actions = << >> /\ pc = "reboot")

\* C1 witness: a removed file whose path a rule with an action matches,
\* after a change that resolved, has ended the pass in a reboot.
C1_Witness ==
  /\ pc = "reboot"
  /\ err = "File was removed"
  /\ Len(filesChanges) = 2
  /\ filesChanges[1].changeType = changeCreated
  /\ getFileAction(filterConfig, filesChanges[1].name) # Nil
  /\ filesChanges[2].changeType = changeDeleted
  /\ getFileAction(filterConfig, filesChanges[2].name) # Nil

\* C2: when a created or updated file path matches no entry of Files, or a
\* created or updated unit name matches no entry of Units,
\* getPostUpdateActions returns an error and no action list: no plan is
\* returned that passes the change over.
C2_UnmatchedForcesReboot ==
  (Resolved /\ HasUnmatched) => (err # "nil" /\ actions = << >> /\ pc = "reboot")

\* C2 witness: no change is a deletion, the file change resolved to an action
\* and the unit change after it matches no entry: the pass ended in a reboot.
C2_Witness ==
  /\ pc = "reboot"
  /\ ~HasDeleted
  /\ Len(filesChanges) = 1
  /\ FileMatches(filesChanges[1].name) # {}
  /\ getFileAction(filterConfig, filesChanges[1].name) # Nil
  /\ Len(unitsChanges) = 1
  /\ UnitMatches(unitsChanges[1].name) = {}
  /\ err = "No action found for unit"

\* C3: getFileAction(path) is the action of the lowest-index entry of Files
\* whose glob matches the path. It is read off the table of the pass, for
\* every path, when getPostUpdateActions has consulted the table.
C3_FirstMatchWins ==
  (pc \in {"reboot", "drain"}) =>
    \A path \in FilePaths :
      LET hits == FileMatches(path)
      IN  hits # {} =>
            getFileAction(filterConfig, path) = filterConfig.Files[Lowest(hits)].postUpdateAction

\* C3 witness: two entries with different actions both match the path of a
\* created file, and the action of the earlier one was put in the plan.
C3_Witness ==
  /\ Resolved
  /\ err = "nil"
  /\ Len(filesChanges) >= 1
  /\ FileMatches(filesChanges[1].name) = {1, 2}
  /\ filterConfig.Files[1].postUpdateAction # filterConfig.Files[2].postUpdateAction
  /\ filterConfig.Files[1].glob # filterConfig.Files[2].glob
  /\ actions[1] = filterConfig.Files[1].postUpdateAction

\* C4: runPostUpdateActions runs the actions in list order; when the action
\* at index i returns an error no action at a greater index is run and the
\* function returns true; it returns false only when every action has run and
\* succeeded.
C4_ExecutionShortCircuit ==
  /\ \A k \in 1..Len(ran) :
       /\ ran[k].idx = k
       /\ ran[k].action = actions[k]
       /\ ran[k].err # "nil" => (k = Len(ran) /\ pc = "done" /\ ret = TRUE)
  /\ ret = TRUE => pc = "done"
  /\ pc = "done" => (ret = TRUE <=> \E k \in 1..Len(ran) : ran[k].err # "nil")
  /\ (pc = "done" /\ ret = FALSE) =>
       /\ Len(ran) = Len(actions)
       /\ \A k \in 1..Len(ran) : ran[k].err = "nil"

\* C4 witness: in a plan of two actions the first Run() failed; the function
\* returned true and the second action was not run.
C4_Witness ==
  /\ pc = "done"
  /\ ret = TRUE
  /\ Len(actions) = 2
  /\ Len(ran) = 1
  /\ ran[1].err # "nil"

\* C5: isDrainRequired(actions) is true exactly when at least one action of
\* the list has its drain flag set; for the empty list it is false.
C5_DrainAggregation ==
  pc \in {"run", "done"} =>
    drain = (\E k \in 1..Len(actions) : actions[k].drainRequired = TRUE)

\* C5 witness: the drain flag of the first action is set, that of the last
\* one is not, and isDrainRequired returned true.
C5_Witness ==
  /\ pc = "run"
  /\ Len(actions) = 2
  /\ actions[1].drainRequired
  /\ ~actions[2].drainRequired
  /\ drain = TRUE

\* The action the policy table gives the k-th file change / unit change.
FileChangeAction(k) ==
  filterConfig.Files[Lowest(FileMatches(filesChanges[k].name))].postUpdateAction

UnitChangeAction(k) ==
  RunSystemctlAction(unitsChanges[k].name, unitRestart,
    filterConfig.Units[Lowest(UnitMatches(unitsChanges[k].name))].drainRequired)

\* C6: when getPostUpdateActions succeeds the list holds one action per
\* change: the actions of filesChanges in filesChanges order, then the
\* actions of unitsChanges in unitsChanges order; runPostUpdateActions runs
\* them in that order.
C6_PlanInChangeOrder ==
  (Resolved /\ err = "nil") =>
    /\ Len(actions) = Len(filesChanges) + Len(unitsChanges)
    /\ \A k \in 1..Len(filesChanges) :
         /\ FileMatches(filesChanges[k].name) # {}
         /\ actions[k] = FileChangeAction(k)
    /\ \A k \in 1..Len(unitsChanges) :
         /\ UnitMatches(unitsChanges[k].name) # {}
         /\ actions[Len(filesChanges) + k] = UnitChangeAction(k)
    /\ \A k \in 1..Len(ran) :
         ran[k].action = actions[k] /\ \A m \in 1..(k-1) : ran[m].idx < ran[k].idx

\* C6 witness: a pass with one file change and one unit change has run the
\* action of the file and then the action of the unit.
C6_Witness ==
  /\ pc = "done"
  /\ ret = FALSE
  /\ Len(filesChanges) = 1
  /\ Len(unitsChanges) = 1
  /\ Len(ran) = 2
  /\ ran[1].action = FileChangeAction(1)
  /\ ran[2].action = UnitChangeAction(1)
  /\ ran[1].action # ran[2].action

\* C7: no action is run before every file and unit change of the pass is
\* resolved: in a pass with a deletion or an unmatched change no Run() call
\* is ever made, also when earlier changes resolved to an action.
C7_NoRunBeforeResolved ==
  /\ (HasDeleted \/ HasUnmatched \/ err # "nil") => ran = << >>
  /\ ran # << >> =>
       /\ Resolved
       /\ err = "nil"
       /\ Len(actions) = Len(filesChanges) + Len(unitsChanges)

\* C7 witness: the first file change resolved to an action, the second one
\* matches no entry; the pass ended in a reboot and nothing was run.
C7_Witness ==
  /\ pc = "reboot"
  /\ err = "No action found for file"
  /\ Len(filesChanges) = 2
  /\ filesChanges[1].changeType \in {changeCreated, changeUpdated}
  /\ getFileAction(filterConfig, filesChanges[1].name) # Nil
  /\ filesChanges[2].changeType \in {changeCreated, changeUpdated}
  /\ FileMatches(filesChanges[2].name) = {}
  /\ ran = << >>

(***************************************************************************)
(* Properties of the differ (specification SpecDiff).                      *)
(***************************************************************************)
\* getFilesChanges / getUnitsChanges has returned.
DiffedFiles == pc \in {"diffUnits", "diffDone"}
DiffedUnits == pc = "diffDone"

FilePathsOf(snapshot) == {snapshot[k].Path : k \in 1..Len(snapshot)}
UnitNamesOf(snapshot) == {snapshot[k].Name : k \in 1..Len(snapshot)}

\* The descriptor a snapshot holds for an identity.
FileOf(snapshot, x) == snapshot[CHOOSE k \in 1..Len(snapshot) : snapshot[k].Path = x]
UnitOf(snapshot, n) == snapshot[CHOOSE k \in 1..Len(snapshot) : snapshot[k].Name = n]

\* The positions of the changes emitted for an identity.
FileChangesOf(x) == {k \in 1..Len(filesChanges) : filesChanges[k].name = x}
UnitChangesOf(n) == {k \in 1..Len(unitsChanges) : unitsChanges[k].name = n}

\* C8: for a file path present in both snapshots getFilesChanges emits no
\* change when the old and the new descriptor are equal, and exactly one
\* change, of kind updated and carrying the new descriptor, when they differ.
C8_FileUpdateDetection ==
  DiffedFiles =>
    \A x \in FilePathsOf(oldFilesConfig) \cap FilePathsOf(newFilesConfig) :
      IF FileOf(oldFilesConfig, x) = FileOf(newFilesConfig, x)
      THEN FileChangesOf(x) = {}
      ELSE \E k \in 1..Len(filesChanges) :
             /\ FileChangesOf(x) = {k}
             /\ filesChanges[k].changeType = changeUpdated
             /\ filesChanges[k].file = FileOf(newFilesConfig, x)

\* C8 witness: of two paths present in both snapshots one kept its contents
\* and the other did not, and a single change was emitted.
C8_Witness ==
  /\ DiffedFiles
  /\ Len(filesChanges) = 1
  /\ \E x, y \in FilePathsOf(oldFilesConfig) \cap FilePathsOf(newFilesConfig) :
       /\ FileOf(oldFilesConfig, x) # FileOf(newFilesConfig, x)
       /\ FileOf(oldFilesConfig, y) = FileOf(newFilesConfig, y)
       /\ filesChanges[1].name = x

\* C9: getUnitsChanges emits exactly one updated change for every unit name
\* present in both snapshots whose descriptor differs, with oldUnit and
\* newUnit being that unit's own old and new descriptors, and no change for a
\* unit whose descriptors are equal.
C9_UnitUpdateDetection ==
  DiffedUnits =>
    \A n \in UnitNamesOf(oldUnitsConfig) \cap UnitNamesOf(newUnitsConfig) :
      IF UnitOf(oldUnitsConfig, n) = UnitOf(newUnitsConfig, n)
      THEN UnitChangesOf(n) = {}
      ELSE \E k \in 1..Len(unitsChanges) :
             /\ UnitChangesOf(n) = {k}
             /\ unitsChanges[k].changeType = changeUpdated
             /\ unitsChanges[k].oldUnit = UnitOf(oldUnitsConfig, n)
             /\ unitsChanges[k].newUnit = UnitOf(newUnitsConfig, n)

\* C10: for snapshots with no shared identity the change list holds exactly
\* one deleted change per identity of the old snapshot, exactly one created
\* change per identity of the new snapshot, and nothing else.
C10_DisjointSnapshots ==
  /\ (DiffedFiles /\ FilePathsOf(oldFilesConfig) \cap FilePathsOf(newFilesConfig) = {}) =>
       /\ Len(filesChanges) = Len(oldFilesConfig) + Len(newFilesConfig)
       /\ \A x \in FilePathsOf(oldFilesConfig) :
            \E k \in 1..Len(filesChanges) :
              FileChangesOf(x) = {k} /\ filesChanges[k].changeType = changeDeleted
       /\ \A x \in FilePathsOf(newFilesConfig) :
            \E k \in 1..Len(filesChanges) :
              FileChangesOf(x) = {k} /\ filesChanges[k].changeType = changeCreated
  /\ (DiffedUnits /\ UnitNamesOf(oldUnitsConfig) \cap UnitNamesOf(newUnitsConfig) = {}) =>
       /\ Len(unitsChanges) = Len(oldUnitsConfig) + Len(newUnitsConfig)
       /\ \A n \in UnitNamesOf(oldUnitsConfig) :
            \E k \in 1..Len(unitsChanges) :
              UnitChangesOf(n) = {k} /\ unitsChanges[k].changeType = changeDeleted
       /\ \A n \in UnitNamesOf(newUnitsConfig) :
            \E k \in 1..Len(unitsChanges) :
              UnitChangesOf(n) = {k} /\ unitsChanges[k].changeType = changeCreated

\* C10 witness: two units were removed and another one was created, and the
\* change list holds the three changes.
C10_Witness ==
  /\ DiffedUnits
  /\ Len(oldUnitsConfig) = 2
  /\ Len(newUnitsConfig) = 1
  /\ UnitNamesOf(oldUnitsConfig) \cap UnitNamesOf(newUnitsConfig) = {}
  /\ Len(unitsChanges) = 3
  /\ unitsChanges[1].changeType = changeCreated
  /\ unitsChanges[2].changeType = changeDeleted
  /\ unitsChanges[3].changeType = changeDeleted

\* C11: diffing a snapshot against itself yields the empty change list, for
\* files and for units.
C11_DiffIdentity ==
  /\ (DiffedFiles /\ oldFilesConfig = newFilesConfig) => filesChanges = << >>
  /\ (DiffedUnits /\ oldUnitsConfig = newUnitsConfig) => unitsChanges = << >>

\* C11 witness: a snapshot of two units was diffed against itself.
C11_Witness ==
  /\ DiffedUnits
  /\ Len(oldUnitsConfig) = 2
  /\ oldUnitsConfig = newUnitsConfig
  /\ unitsChanges = << >>

\* C12: the differ is deterministic: for a pair of snapshots every run of
\* getFilesChanges (and of getUnitsChanges) returns the same changes in the
\* same order, whatever order the set container delivers its elements in.
C12_DifferDeterministic ==
  /\ DiffedFiles => getFilesChanges(oldFilesConfig, newFilesConfig) = {filesChanges}
  /\ DiffedUnits => getUnitsChanges(oldUnitsConfig, newUnitsConfig) = {unitsChanges}

(***************************************************************************)
(* Matching of rules (specification Spec).                                 *)
(***************************************************************************)
\* The entries of Units whose name equals the unit name or matches it as a
\* glob.
UnitGlobMatches(name) ==
  {k \in 1..Len(filterConfig.Units) : UnitGlobMatch(filterConfig.Units[k].name, name)}

\* The pass has unit changes only, none of them a deletion.
OnlyLiveUnitChanges ==
  /\ filesChanges = << >>
  /\ unitsChanges # << >>
  /\ \A k \in 1..Len(unitsChanges) : unitsChanges[k].changeType # changeDeleted

WithoutMalformed(config, path) ==
  [config EXCEPT !.Files = SelectSeq(@, LAMBDA entry : Match(entry.glob, path).err = "nil")]

\* The file changes that are looked up in the table.
LiveFileChanges ==
  {k \in 1..Len(filesChanges) : filesChanges[k].changeType # changeDeleted}

\* C14: a file entry whose glob is malformed is skipped without aborting the
\* lookup: every created or updated file gets the action the table gives it
\* once the malformed entries are left out, and the pass needs a reboot for
\* want of an action only when that table gives none.
C14_MalformedGlobSkipped ==
  pc \in {"reboot", "drain"} =>
    /\ \A k \in LiveFileChanges :
         LET a == getFileAction(WithoutMalformed(filterConfig, filesChanges[k].name),
                                filesChanges[k].name)
         IN  /\ err = "nil" => actions[k] = a
             /\ a = Nil => pc = "reboot"
    /\ ( /\ unitsChanges = << >>
         /\ LiveFileChanges = 1..Len(filesChanges)
         /\ \A k \in LiveFileChanges :
              getFileAction(WithoutMalformed(filterConfig, filesChanges[k].name),
                            filesChanges[k].name) # Nil )
       => pc = "drain"

\* C14 witness: the first entry is malformed, the second matches /a, and the
\* created /a got the action of the second entry.
C14_Witness ==
  /\ pc = "drain"
  /\ Len(filterConfig.Files) = 2
  /\ filterConfig.Files[1].glob = GlobBad
  /\ Match(filterConfig.Files[2].glob, PathA).matched
  /\ Len(filesChanges) = 1
  /\ filesChanges[1].name = PathA
  /\ filesChanges[1].changeType = changeCreated
  /\ actions = <<filterConfig.Files[2].postUpdateAction>>

\* What a caller of getPostUpdateActions can observe of the unit changes from
\* change k on, under the table config: per change the glog line and the
\* action appended, up to the change at which the function returns.
RECURSIVE UnitsOutcome(_, _, _)
UnitsOutcome(config, unitsChanges_, k) ==
  IF k > Len(unitsChanges_) THEN << >>
  ELSE LET change == unitsChanges_[k]
           action == getUnitAction(config, change.name)
       IN  IF change.changeType = changeDeleted
           THEN << [log |-> "Unit was removed, reboot will be required",
                    name |-> change.name, action |-> Nil] >>
           ELSE IF action = Nil
           THEN << [log |-> "No action found for unit, reboot will be required",
                    name |-> change.name, action |-> Nil] >>
           ELSE << [log |-> "Action found for unit",
                    name |-> change.name, action |-> action] >>
                  \o UnitsOutcome(config, unitsChanges_, k + 1)

\* The same for the file changes from change k on, followed by the unit
\* changes.
RECURSIVE FilesOutcome(_, _, _, _)
FilesOutcome(config, filesChanges_, unitsChanges_, k) ==
  IF k > Len(filesChanges_) THEN UnitsOutcome(config, unitsChanges_, 1)
  ELSE LET change == filesChanges_[k]
           action == getFileAction(config, change.name)
       IN  IF change.changeType = changeDeleted
           THEN << [log |-> "File was removed, reboot will be required",
                    name |-> change.name, action |-> Nil] >>
           ELSE IF action = Nil
           THEN << [log |-> "No action found for file, reboot will be required",
                    name |-> change.name, action |-> Nil] >>
           ELSE << [log |-> "Action found for file",
                    name |-> change.name, action |-> action] >>
                  \o FilesOutcome(config, filesChanges_, unitsChanges_, k + 1)

\* The policy table without the file entries whose glob is not well formed.
WellFormedOnly(config) ==
  [config EXCEPT !.Files = SelectSeq(@, LAMBDA entry : WellFormed(entry.glob, 1))]

\* The lookup of file change k passed over an entry with a malformed glob.
SkippedMalformed(k) ==
  \E j \in 1..Len(filterConfig.Files) :
    /\ Match(filterConfig.Files[j].glob, filesChanges[k].name).err # "nil"
    /\ \A i \in 1..(j - 1) :
         ~Match(filterConfig.Files[i].glob, filesChanges[k].name).matched

\* The resolver looked up file change k: every earlier change got an action.
LookedUp(k) ==
  /\ k \in LiveFileChanges
  /\ \A i \in 1..(k - 1) :
       i \in LiveFileChanges /\ getFileAction(filterConfig, filesChanges[i].name) # Nil

\* C15: the malformed pattern is surfaced to the caller: a resolution that
\* skipped a malformed entry differs, in what it returns or logs, from the
\* resolution of the same changes under the table without that entry.
C15_MalformedPatternSurfaced ==
  (pc \in {"reboot", "drain"} /\ \E k \in 1..Len(filesChanges) : LookedUp(k) /\ SkippedMalformed(k))
  => FilesOutcome(filterConfig, filesChanges, unitsChanges, 1)
       # FilesOutcome(WellFormedOnly(filterConfig), filesChanges, unitsChanges, 1)

\* C17: a created or updated file whose first matching entry carries no
\* action forces a reboot at once: no plan is returned and nothing is run,
\* whatever the later matching entries carry.
C17_NilActionForcesReboot ==
  pc \in {"reboot", "drain"} =>
    \A k \in 1..Len(filesChanges) :
      ( /\ LookedUp(k)
        /\ FileMatches(filesChanges[k].name) # {}
        /\ filterConfig.Files[Lowest(FileMatches(filesChanges[k].name))].postUpdateAction = Nil )
      => /\ pc = "reboot"
         /\ err = "No action found for file"
         /\ actions = << >>
         /\ ran = << >>

\* C17 witness: the first entry matching /a has no action, a later entry
\* matching /a has one, and the pass ended in a reboot.
C17_Witness ==
  /\ pc = "reboot"
  /\ Len(filterConfig.Files) = 2
  /\ filterConfig.Files[1] = [glob |-> GlobA, postUpdateAction |-> Nil]
  /\ filterConfig.Files[2] = [glob |-> GlobStar,
                              postUpdateAction |-> RunBinaryAction("/bin/bash", FALSE)]
  /\ Len(filesChanges) = 1
  /\ filesChanges[1].name = PathA
  /\ filesChanges[1].changeType = changeUpdated
  /\ unitsChanges = << >>

\* C20: a unit named by an entry resolves to the systemctl restart of that
\* unit with the drain flag of the first entry that names it, and the pass
\* requires a drain whenever such a flag is set.
C20_UnitDrainFlag ==
  (Resolved /\ err = "nil") =>
    \A k \in 1..Len(unitsChanges) :
      LET first == filterConfig.Units[Lowest(UnitMatches(unitsChanges[k].name))]
      IN  /\ UnitMatches(unitsChanges[k].name) # {}
          /\ actions[Len(filesChanges) + k] =
               RunSystemctlAction(unitsChanges[k].name, unitRestart, first.drainRequired)
          /\ (pc \in {"run", "done"} /\ first.drainRequired) => drain

\* C20 witness: two entries name u1.service, the first asks for a drain and
\* the second does not; the created u1.service made the pass require a drain.
C20_Witness ==
  /\ pc \in {"run", "done"}
  /\ drain
  /\ filterConfig.Files = << >>
  /\ filterConfig.Units = << [name |-> "u1.service", drainRequired |-> TRUE],
                             [name |-> "u1.service", drainRequired |-> FALSE] >>
  /\ filesChanges = << >>
  /\ Len(unitsChanges) = 1
  /\ unitsChanges[1].name = "u1.service"
  /\ unitsChanges[1].changeType = changeCreated

(***************************************************************************)
(* SpecOneFunction: the revision in which one function, runPostUpdateActions *)
(* (filesChanges, unitsChanges) bool, resolves the changes and runs the    *)
(* actions, and in which the table may hold a NoOpAction.                  *)
(***************************************************************************)
fileCreated == "created"
fileDeleted == "deleted"
fileUpdated == "updated"

\* The actions of this revision carry no drain flag.
NoOpAction == [kind |-> "NoOpAction"]
RunBinaryActionArgs(binary) == [kind |-> "RunBinaryAction", binary |-> binary]
RunSystemctlActionOp(unitName, operation) ==
  [kind |-> "RunSystemctlAction", unitName |-> unitName, operation |-> operation]

\* for _, entry := range config.Files, from entry k on.
RECURSIVE GetFileActionFrom(_, _, _)
GetFileActionFrom(config, filePath, k) ==
  IF k > Len(config.Files) THEN Nil
  ELSE LET entry == config.Files[k]
           m == Match(entry.Glob, filePath)
       IN  IF m.err # "nil" THEN GetFileActionFrom(config, filePath, k + 1)
           ELSE IF m.matched THEN entry.PostUpdateAction
           ELSE GetFileActionFrom(config, filePath, k + 1)

\* Variant of GetFileAction: an entry that carries NoOpAction counts as an
\* entry without an action.
GetFileActionNoOpAsNil(config, filePath) ==
  LET a == GetFileActionFrom(config, filePath, 1)
  IN  IF a = NoOpAction THEN Nil ELSE a

GetFileAction(config, filePath) == GetFileActionFrom(config, filePath, 1)

GetUnitAction(config, unitName) ==
  IF \E k \in 1..Len(config.Units) : config.Units[k] = unitName
  THEN RunSystemctlActionOp(unitName, unitRestart)
  ELSE Nil

\* The second loop of runPostUpdateActions, from unit change k on: reboot is
\* set when the loop executes return true.
RECURSIVE CollectUnitActions(_, _, _)
CollectUnitActions(unitsChanges_, k, acc) ==
  IF k > Len(unitsChanges_) THEN [reboot |-> FALSE, actions |-> acc]
  ELSE LET change == unitsChanges_[k]
           action == GetUnitAction(filterConfig, change.name)
       IN  IF change.changeType \in {fileCreated, fileUpdated}
           THEN IF action = Nil
                THEN [reboot |-> TRUE, actions |-> acc]
                ELSE CollectUnitActions(unitsChanges_, k + 1, Append(acc, action))
           ELSE [reboot |-> TRUE, actions |-> acc]

\* The first loop of runPostUpdateActions, from file change k on, followed by
\* the second loop.
RECURSIVE CollectFileActions(_, _, _, _)
CollectFileActions(filesChanges_, unitsChanges_, k, acc) ==
  IF k > Len(filesChanges_) THEN CollectUnitActions(unitsChanges_, 1, acc)
  ELSE LET change == filesChanges_[k]
           action == GetFileAction(filterConfig, change.name)
       IN  IF change.changeType \in {fileCreated, fileUpdated}
           THEN IF action = Nil
                THEN [reboot |-> TRUE, actions |-> acc]
                ELSE CollectFileActions(filesChanges_, unitsChanges_, k + 1,
                                        Append(acc, action))
           ELSE [reboot |-> TRUE, actions |-> acc]

FileFilterEntryDrain ==
  [Glob : {GlobA, GlobStar},
   PostUpdateAction : {NoOpAction, RunBinaryActionArgs("/bin/bash"), Nil},
   Drain : {FALSE}]
    \cup {[Glob |-> GlobBad, PostUpdateAction |-> NoOpAction, Drain |-> FALSE]}

\* The tables of this revision: Units is a list of unit names.
AvoidRebootConfigUnitNames ==
  UNION { UNION { [Files : [1..f -> FileFilterEntryDrain], Units : [1..u -> {"u1.service"}]] :
                    u \in 0..(MaxRules - f) } :
            f \in 0..MaxRules }

InitOneFunction ==
  /\ oldFilesConfig = << >>
  /\ newFilesConfig = << >>
  /\ oldUnitsConfig = << >>
  /\ newUnitsConfig = << >>
  /\ filterConfig \in AvoidRebootConfigUnitNames
  /\ filesChanges \in ChangeLists(FileChange, MaxChanges)
  /\ unitsChanges \in ChangeLists(UnitChange, MaxChanges - Len(filesChanges))
  /\ actions = << >>
  /\ err = "nil"
  /\ drain = FALSE
  /\ idx = 0
  /\ ran = << >>
  /\ ret = FALSE
  /\ pc = "collect"

\* The two resolution loops of runPostUpdateActions: return true at the first
\* change without an action, else go on to run the actions collected.
CollectActions ==
  /\ pc = "collect"
  /\ LET r == CollectFileActions(filesChanges, unitsChanges, 1, << >>)
     IN  /\ actions' = r.actions
         /\ IF r.reboot
            THEN ret' = TRUE /\ pc' = "returned" /\ idx' = idx
            ELSE ret' = ret /\ pc' = "execute" /\ idx' = 1
  /\ UNCHANGED <<oldFilesConfig, newFilesConfig, oldUnitsConfig, newUnitsConfig,
                 filesChanges, unitsChanges, filterConfig, err, drain, ran>>

\* One iteration of the last loop of runPostUpdateActions: action.Run(), and
\* return true when it fails.
RunCollectedAction ==
  /\ pc = "execute"
  /\ idx <= Len(actions)
  /\ \E e \in Run(actions[idx]) :
       /\ ran' = Append(ran, [idx |-> idx, action |-> actions[idx], err |-> e])
       /\ IF e # "nil"
          THEN ret' = TRUE /\ pc' = "returned" /\ idx' = idx
          ELSE ret' = ret /\ pc' = pc /\ idx' = idx + 1
  /\ UNCHANGED <<oldFilesConfig, newFilesConfig, oldUnitsConfig, newUnitsConfig,
                 filesChanges, unitsChanges, filterConfig, actions, err, drain>>

\* The last loop is over: return false.
ReturnFalse ==
  /\ pc = "execute"
  /\ idx > Len(actions)
  /\ ret' = FALSE
  /\ pc' = "returned"
  /\ UNCHANGED <<oldFilesConfig, newFilesConfig, oldUnitsConfig, newUnitsConfig,
                 filesChanges, unitsChanges, filterConfig, actions, err, drain,
                 idx, ran>>

NextOneFunction == CollectActions \/ RunCollectedAction \/ ReturnFalse

SpecOneFunction == InitOneFunction /\ [][NextOneFunction]_vars

\* The entries of Files whose Glob matches the path.
GlobMatches(path) ==
  {k \in 1..Len(filterConfig.Files) : Match(filterConfig.Files[k].Glob, path).matched}

\* The first entry matching the file of file change k carries NoOpAction.
NoOpChange(k) ==
  /\ filesChanges[k].changeType \in {fileCreated, fileUpdated}
  /\ GlobMatches(filesChanges[k].name) # {}
  /\ filterConfig.Files[Lowest(GlobMatches(filesChanges[k].name))].PostUpdateAction = NoOpAction

\* C16: a rule carrying NoOpAction is not the absence of a rule: a created or
\* updated file whose first matching rule carries it puts NoOpAction in the
\* plan instead of forcing a reboot, the action never fails, and a pass made
\* only of such changes returns false (no reboot).
C16_NoOpIsNotNoMatch ==
  /\ pc \in {"execute", "returned"} =>
       /\ \A k \in 1..Len(filesChanges) :
            (NoOpChange(k) /\ Len(actions) >= k) => actions[k] = NoOpAction
       /\ (unitsChanges = << >> /\ \A k \in 1..Len(filesChanges) : NoOpChange(k))
            => /\ actions = [k \in 1..Len(filesChanges) |-> NoOpAction]
               /\ pc = "returned" => (~ret /\ Len(ran) = Len(filesChanges))
  /\ \A i \in 1..Len(ran) : ran[i].action = NoOpAction => ran[i].err = "nil"

\* C16 witness: two files matched NoOpAction rules, both actions were run and
\* the pass returned false.
C16_Witness ==
  /\ pc = "returned"
  /\ ~ret
  /\ Len(filesChanges) = 2
  /\ unitsChanges = << >>
  /\ \A k \in 1..2 : NoOpChange(k)
  /\ Len(ran) = 2
  /\ \A i \in 1..2 : ran[i].action = NoOpAction

(***************************************************************************)
(* SpecRebootFilter: pkg/daemon/reboot_filter.go, the revision with        *)
(* getFilesDiff and runPostActions(changes) bool and its built-in          *)
(* FilterConfig.                                                           *)
(***************************************************************************)
\* "/etc/kubernetes/kubelet.conf"
PathKubelet ==
  <<"/", "e", "t", "c", "/", "k", "u", "b", "e", "r", "n", "e", "t", "e", "s",
    "/", "k", "u", "b", "e", "l", "e", "t", ".", "c", "o", "n", "f">>

FilterConfig ==
  [Files |-> << [Glob |-> PathKubelet,
                 PostUpdateAction |-> RunSystemctlActionOp("kubelet.service", unitReload),
                 Drain |-> FALSE] >>,
   Units |-> <<"chronyd.service", "sshd.service">>]

GetAction(config, filePath) == GetFileActionFrom(config, filePath, 1)

\* The nil interface{} value, as an element of a slice or set of names.
NilName == <<"<nil>">>

\* The nil *FileChanged.
NilChange == [Nil |-> TRUE]

\* The zero igntypes.File, which a map gives for a key it does not hold.
ZeroFile == [Path |-> << >>, Contents |-> ""]

\* names := make([]interface{}, len(files)), then one append per file: the
\* slice starts with len(files) nil values.
getFileNamesAppended(files) ==
  [k \in 1..Len(files) |-> NilName] \o [k \in 1..Len(files) |-> files[k].Path]

\* fileMap[key]
MapIndex(fileMap, key) == IF key \in DOMAIN fileMap THEN fileMap[key] ELSE ZeroFile

\* The three loops of getFilesDiff for one delivery order of each set.
FilesDiffFor(oldFilesMap, newFilesMap, created, deleted, candidates) ==
  LET c == [k \in 1..Len(created) |->
              [name |-> created[k], file |-> MapIndex(newFilesMap, created[k]),
               changeType |-> fileCreated]]
      d == [k \in 1..Len(deleted) |->
              [name |-> deleted[k], file |-> MapIndex(oldFilesMap, deleted[k]),
               changeType |-> fileDeleted]]
      u == SelectSeq([k \in 1..Len(candidates) |->
                        [name |-> candidates[k],
                         file |-> MapIndex(newFilesMap, candidates[k]),
                         changeType |-> fileUpdated]],
                     LAMBDA ch : MapIndex(newFilesMap, ch.name) # MapIndex(oldFilesMap, ch.name))
  IN  c \o d \o u

\* getFilesDiff(oldFilesConfig, newFilesConfig): the possible outcomes. The
\* type assertion x.(string) panics on the nil element of a set; changes
\* starts with newFiles.Cardinality() nil pointers; the loop that labels
\* fileCreated ranges over old minus new, the one that labels fileDeleted over
\* new minus old.
getFilesDiff(oldFiles_, newFiles_) ==
  LET oldFiles == NewSetFromSlice(getFileNamesAppended(oldFiles_))
      newFiles == NewSetFromSlice(getFileNamesAppended(newFiles_))
      oldFilesMap == filesToMap(oldFiles_)
      newFilesMap == filesToMap(newFiles_)
      changes == [k \in 1..Cardinality(newFiles) |-> NilChange]
  IN  IF NilName \in (oldFiles \ newFiles) \cup (newFiles \ oldFiles) \cup (newFiles \cap oldFiles)
      THEN {[panic |-> TRUE, changes |-> << >>]}
      ELSE {[panic |-> FALSE,
             changes |-> changes \o FilesDiffFor(oldFilesMap, newFilesMap, c, d, u)] :
              c \in Iter(oldFiles \ newFiles), d \in Iter(newFiles \ oldFiles),
              u \in Iter(newFiles \cap oldFiles)}

\* The first loop of runPostActions, from change k on: return true when the
\* change is not an update or when an action is found for it; the action is
\* appended only when it is nil. Reading a nil change panics.
RECURSIVE PostActionsFrom(_, _, _)
PostActionsFrom(changes, k, acc) ==
  IF k > Len(changes) THEN [out |-> "loop", actions |-> acc]
  ELSE IF changes[k] = NilChange THEN [out |-> "panic", actions |-> acc]
  ELSE IF changes[k].changeType = fileUpdated
       THEN LET action == GetAction(filterConfig, changes[k].name)
            IN  IF action # Nil
                THEN [out |-> "true", actions |-> acc]
                ELSE PostActionsFrom(changes, k + 1, Append(acc, action))
       ELSE [out |-> "true", actions |-> acc]

\* The changes handed to runPostActions when it is called on its own.
FileChanged ==
  { [name |-> x, file |-> [Path |-> x, Contents |-> "v2"], changeType |-> t] :
      x \in {PathKubelet, PathA}, t \in {fileCreated, fileDeleted, fileUpdated} }

\* Either two snapshots are diffed and the result handed to runPostActions,
\* or runPostActions is called on a list of changes.
InitRebootFilter ==
  /\ oldUnitsConfig = << >>
  /\ newUnitsConfig = << >>
  /\ unitsChanges = << >>
  /\ filterConfig = FilterConfig
  /\ actions = << >>
  /\ err = "nil"
  /\ drain = FALSE
  /\ idx = 0
  /\ ran = << >>
  /\ ret = FALSE
  /\ \/ /\ oldFilesConfig \in FileSnapshots
        /\ newFilesConfig \in FileSnapshots
        /\ filesChanges = << >>
        /\ pc = "diff"
     \/ /\ oldFilesConfig = << >>
        /\ newFilesConfig = << >>
        /\ filesChanges \in ChangeLists(FileChanged, MaxChanges)
        /\ pc = "post"

\* changes := getFilesDiff(oldFilesConfig, newFilesConfig)
GetFilesDiff ==
  /\ pc = "diff"
  /\ \E r \in getFilesDiff(oldFilesConfig, newFilesConfig) :
       /\ filesChanges' = r.changes
       /\ err' = IF r.panic THEN "panic" ELSE err
       /\ pc' = IF r.panic THEN "panic" ELSE "post"
  /\ UNCHANGED <<oldFilesConfig, newFilesConfig, oldUnitsConfig, newUnitsConfig,
                 unitsChanges, filterConfig, actions, drain, idx, ran, ret>>

\* runPostActions: actions := make([]PostUpdateAction, len(changes)) and the
\* loop over the changes.
CollectPostActions ==
  /\ pc = "post"
  /\ LET r == PostActionsFrom(filesChanges, 1, [k \in 1..Len(filesChanges) |-> Nil])
     IN  /\ actions' = r.actions
         /\ CASE r.out = "true" -> ret' = TRUE /\ pc' = "returned" /\ err' = err /\ idx' = idx
              [] r.out = "panic" -> ret' = ret /\ pc' = "panic" /\ err' = "panic" /\ idx' = idx
              [] r.out = "loop" -> ret' = ret /\ pc' = "postRun" /\ err' = err /\ idx' = 1
  /\ UNCHANGED <<oldFilesConfig, newFilesConfig, oldUnitsConfig, newUnitsConfig,
                 filesChanges, unitsChanges, filterConfig, drain, ran>>

\* runPostActions: the loop over actions, one iteration or the return false
\* after it. action.Run() on a nil action panics.
RunPostAction ==
  /\ pc = "postRun"
  /\ IF idx > Len(actions)
     THEN ret' = FALSE /\ pc' = "returned" /\ UNCHANGED <<err, idx, ran>>
     ELSE IF actions[idx] = Nil
     THEN pc' = "panic" /\ err' = "panic" /\ UNCHANGED <<ret, idx, ran>>
     ELSE \E e \in Run(actions[idx]) :
            /\ ran' = Append(ran, [idx |-> idx, action |-> actions[idx], err |-> e])
            /\ err' = err
            /\ IF e # "nil"
               THEN ret' = TRUE /\ pc' = "returned" /\ idx' = idx
               ELSE ret' = ret /\ pc' = pc /\ idx' = idx + 1
  /\ UNCHANGED <<oldFilesConfig, newFilesConfig, oldUnitsConfig, newUnitsConfig,
                 filesChanges, unitsChanges, filterConfig, actions, drain>>

NextRebootFilter == GetFilesDiff \/ CollectPostActions \/ RunPostAction

SpecRebootFilter == InitRebootFilter /\ [][NextRebootFilter]_vars

\* C18: with the built-in FilterConfig, runPostActions given the single change
\* updated(/etc/kubernetes/kubelet.conf) runs the reload of kubelet.service
\* and returns false (no reboot).
C18_KubeletConfReload ==
  ( /\ pc \in {"returned", "panic"}
    /\ Len(filesChanges) = 1
    /\ filesChanges[1].name = PathKubelet
    /\ filesChanges[1].changeType = fileUpdated )
  => /\ pc = "returned"
     /\ ~ret
     /\ ran = << [idx |-> 1,
                  action |-> RunSystemctlActionOp("kubelet.service", unitReload),
                  err |-> "nil"] >>

\* C19: getFilesDiff(old, new) returns, with one created change carrying the
\* new descriptor for every path only in new, one deleted change carrying the
\* old descriptor for every path only in old, and nothing that is not a
\* change of a path of one of the snapshots.
C19_FilesDiffClassification ==
  (pc \in {"post", "panic"} /\ (oldFilesConfig # << >> \/ newFilesConfig # << >>))
  => /\ pc = "post"
     /\ \A k \in 1..Len(filesChanges) :
          /\ filesChanges[k] # NilChange
          /\ filesChanges[k].name \in FilePathsOf(oldFilesConfig) \cup FilePathsOf(newFilesConfig)
     /\ \A x \in FilePathsOf(newFilesConfig) \ FilePathsOf(oldFilesConfig) :
          \E k \in 1..Len(filesChanges) :
            filesChanges[k] = [name |-> x, file |-> FileOf(newFilesConfig, x),
                               changeType |-> fileCreated]
     /\ \A x \in FilePathsOf(oldFilesConfig) \ FilePathsOf(newFilesConfig) :
          \E k \in 1..Len(filesChanges) :
            filesChanges[k] = [name |-> x, file |-> FileOf(oldFilesConfig, x),
                               changeType |-> fileDeleted]

(***************************************************************************)
(* Retries and roll-back (specification Spec).                             *)
(***************************************************************************)
\* C21: within one pass each action of the plan is run at most once: every
\* step leaves the record of the runs as it is or adds one run at an index
\* greater than every index run so far, and after a failed run nothing more
\* is run; no run is repeated and none is taken back.
C21_AtMostOnce ==
  [][ /\ \/ ran' = ran
         \/ /\ Len(ran') = Len(ran) + 1
            /\ SubSeq(ran', 1, Len(ran)) = ran
            /\ ran'[Len(ran')].action = actions[ran'[Len(ran')].idx]
            /\ \A k \in 1..Len(ran) : ran[k].idx < ran'[Len(ran')].idx
      /\ (\E k \in 1..Len(ran) : ran[k].err # "nil") => ran' = ran ]_vars

\* C21 witness: in a plan of two actions the first succeeded and the second
\* failed; the function returned with exactly these two runs on record.
C21_Witness ==
  /\ pc = "done"
  /\ ret = TRUE
  /\ Len(actions) = 2
  /\ Len(ran) = 2
  /\ ran[1].idx = 1 /\ ran[1].err = "nil"
  /\ ran[2].idx = 2 /\ ran[2].err # "nil"

(***************************************************************************)
(* SpecHandleUnits: handleUnitsChanges(changes) applies the unit changes.  *)
(* createUnit and deleteUnit either succeed or return an error; ran holds  *)
(* the calls made so far, idx the change the loop is at.                   *)
(***************************************************************************)
\* The unit changes the differ can hand over: an updated change carries two
\* different descriptors.
AppliedUnitChange ==
  { [name |-> n,
     oldUnit |-> IF t = changeCreated THEN NilUnit ELSE BaseUnit(n),
     newUnit |-> IF t = changeDeleted THEN NilUnit
                 ELSE [BaseUnit(n) EXCEPT !.Contents = "c2"],
     changeType |-> t] :
      n \in UnitNames, t \in ChangeType }

\* The results of createUnit and of deleteUnit.
createUnit(unit) == {"nil", "createUnit failed"}
deleteUnit(unit) == {"nil", "deleteUnit failed"}

InitHandleUnits ==
  /\ oldFilesConfig = << >>
  /\ newFilesConfig = << >>
  /\ oldUnitsConfig = << >>
  /\ newUnitsConfig = << >>
  /\ filesChanges = << >>
  /\ unitsChanges \in ChangeLists(AppliedUnitChange, MaxChanges)
  /\ filterConfig = NoConfig
  /\ actions = << >>
  /\ err = "nil"
  /\ drain = FALSE
  /\ idx = 1
  /\ ran = << >>
  /\ ret = FALSE
  /\ pc = "handle"

\* Variant of DeleteUnit: the error of deleteUnit for an updated unit is not
\* tested and createUnit is called all the same.
DeleteUnitThenCreate ==
  /\ pc = "handle"
  /\ idx <= Len(unitsChanges)
  /\ unitsChanges[idx].changeType \in {changeUpdated, changeDeleted}
  /\ \E e \in deleteUnit(unitsChanges[idx].oldUnit) :
       /\ ran' = Append(ran, [idx |-> idx, call |-> "deleteUnit",
                              unit |-> unitsChanges[idx].oldUnit, err |-> e])
       /\ err' = e
       /\ IF unitsChanges[idx].changeType = changeUpdated
          THEN pc' = "create" /\ idx' = idx
          ELSE IF e # "nil"
          THEN pc' = "handled" /\ idx' = idx
          ELSE pc' = pc /\ idx' = idx + 1
  /\ UNCHANGED <<oldFilesConfig, newFilesConfig, oldUnitsConfig, newUnitsConfig,
                 filesChanges, unitsChanges, filterConfig, actions, drain, ret>>

\* case changeUpdated, case changeDeleted: err = deleteUnit(change.oldUnit);
\* return on an error, else go on to createUnit (updated) or to the next
\* change (deleted).
DeleteUnit ==
  /\ pc = "handle"
  /\ idx <= Len(unitsChanges)
  /\ unitsChanges[idx].changeType \in {changeUpdated, changeDeleted}
  /\ \E e \in deleteUnit(unitsChanges[idx].oldUnit) :
       /\ ran' = Append(ran, [idx |-> idx, call |-> "deleteUnit",
                              unit |-> unitsChanges[idx].oldUnit, err |-> e])
       /\ err' = e
       /\ IF e # "nil"
          THEN pc' = "handled" /\ idx' = idx
          ELSE IF unitsChanges[idx].changeType = changeUpdated
          THEN pc' = "create" /\ idx' = idx
          ELSE pc' = pc /\ idx' = idx + 1
  /\ UNCHANGED <<oldFilesConfig, newFilesConfig, oldUnitsConfig, newUnitsConfig,
                 filesChanges, unitsChanges, filterConfig, actions, drain, ret>>

\* case changeCreated, and case changeUpdated after deleteUnit succeeded:
\* err = createUnit(change.newUnit); return on an error, else next change.
CreateUnit ==
  /\ \/ pc = "create"
     \/ /\ pc = "handle"
        /\ idx <= Len(unitsChanges)
        /\ unitsChanges[idx].changeType = changeCreated
  /\ \E e \in createUnit(unitsChanges[idx].newUnit) :
       /\ ran' = Append(ran, [idx |-> idx, call |-> "createUnit",
                              unit |-> unitsChanges[idx].newUnit, err |-> e])
       /\ err' = e
       /\ IF e # "nil"
          THEN pc' = "handled" /\ idx' = idx
          ELSE pc' = "handle" /\ idx' = idx + 1
  /\ UNCHANGED <<oldFilesConfig, newFilesConfig, oldUnitsConfig, newUnitsConfig,
                 filesChanges, unitsChanges, filterConfig, actions, drain, ret>>

\* The loop is over: return (err is nil).
HandleReturn ==
  /\ pc = "handle"
  /\ idx > Len(unitsChanges)
  /\ pc' = "handled"
  /\ UNCHANGED <<oldFilesConfig, newFilesConfig, oldUnitsConfig, newUnitsConfig,
                 filesChanges, unitsChanges, filterConfig, actions, err, drain,
                 idx, ran, ret>>

NextHandleUnits == DeleteUnit \/ CreateUnit \/ HandleReturn

SpecHandleUnits == InitHandleUnits /\ [][NextHandleUnits]_vars

\* The calls that apply unit change k, in order.
CallsOf(k) ==
  LET change == unitsChanges[k]
      del == [idx |-> k, call |-> "deleteUnit", unit |-> change.oldUnit]
      cre == [idx |-> k, call |-> "createUnit", unit |-> change.newUnit]
  IN  CASE change.changeType = changeCreated -> <<cre>>
        [] change.changeType = changeDeleted -> <<del>>
        [] change.changeType = changeUpdated -> <<del, cre>>

\* The calls that apply the changes from change k on, in list order.
RECURSIVE CallsFrom(_)
CallsFrom(k) == IF k > Len(unitsChanges) THEN << >> ELSE CallsOf(k) \o CallsFrom(k + 1)

\* C22: handleUnitsChanges applies the changes in list order, an updated unit
\* by deleteUnit(oldUnit) and then createUnit(newUnit), and stops at the first
\* error: the failed call is the last call made, its error is returned, and
\* neither the createUnit of that unit nor any later change follows it.
C22_StopAtFirstError ==
  /\ Len(ran) <= Len(CallsFrom(1))
  /\ \A k \in 1..Len(ran) :
       /\ [idx |-> ran[k].idx, call |-> ran[k].call, unit |-> ran[k].unit] = CallsFrom(1)[k]
       /\ ran[k].err # "nil" => (k = Len(ran) /\ pc = "handled" /\ err = ran[k].err)
  /\ (pc = "handled" /\ err = "nil") => Len(ran) = Len(CallsFrom(1))
  /\ (pc = "handled" /\ err # "nil") => (ran # << >> /\ ran[Len(ran)].err = err)

\* C22 witness: the first of two changes is an update whose deleteUnit
\* failed; the function returned after that one call.
C22_Witness ==
  /\ pc = "handled"
  /\ Len(unitsChanges) = 2
  /\ unitsChanges[1].changeType = changeUpdated
  /\ ran = << [idx |-> 1, call |-> "deleteUnit", unit |-> unitsChanges[1].oldUnit,
               err |-> "deleteUnit failed"] >>
  /\ err = "deleteUnit failed"

====
